---- MODULE Spec2Model ----
(***************************************************************************)
(* Model of the CSL dashboard API of the Shuffle backend                   *)
(* (Shuffle/backend/go-app/csl.go): the eight HTTP handlers, the shared    *)
(* request prologue handleOrgStatsRequest, the access check                *)
(* checkUserOrgAccess and the windowed statistics aggregation done by      *)
(* cslWorkflowExecutions, cslWorkflowChart and cslAppChart.                *)
(*                                                                         *)
(* One request is in flight at a time; pc is the position of the handler   *)
(* that serves it.  Everything the shuffle-shared library returns to       *)
(* the handler (CORS decision, authenticated user, organization, org       *)
(* statistics, workflows, apps) is an input chosen from bounded sets.      *)
(***************************************************************************)
EXTENDS Integers, Sequences, FiniteSets, TLC

VARIABLES
    pc,          \* position of the handler serving the current request
    endpoint,    \* which handler serves the current request
    user,        \* shuffle.User returned by HandleApiAuthentication
    org,         \* result of shuffle.GetOrg inside checkUserOrgAccess
    orgStats,    \* *shuffle.ExecutionInfo returned by handleOrgStatsRequest
    workflows,   \* result of GetAllWorkflowsByQuery and the per-workflow lookups
    status,      \* codes passed to resp.WriteHeader by the handler's code
    body,        \* bodies passed to resp.Write by the handler's code
    trace        \* steps of the current request, in execution order

vars == <<pc, endpoint, user, org, orgStats, workflows, status, body, trace>>

----------------------------------------------------------------------------
(* Program constants                                                       *)

MonthLength == 30
WeekLength == 7

(* Bounds of the model                                                     *)

\* int64 is modelled with IntBits bits, two's complement, so that the
\* wrap-around of Go's + and - is within reach of the checker's integers.
IntBits == 8
\* longest DailyStatistics history a snapshot carries
MaxHistory == 32
\* most workflows GetAllWorkflowsByQuery returns
MaxWorkflows == 2
\* most apps GetAllWorkflowApps returns
MaxApps == 2

Nil == [nil |-> TRUE]

----------------------------------------------------------------------------
(* int64 arithmetic                                                        *)

RECURSIVE Pow2(_)
Pow2(n) == IF n = 0 THEN 1 ELSE 2 * Pow2(n - 1)

MaxInt64 == Pow2(IntBits - 1) - 1
MinInt64 == 0 - Pow2(IntBits - 1)

Wrap64(x) == ((x - MinInt64) % Pow2(IntBits)) + MinInt64

\* Go's a + b and a - b on int64
Add64(a, b) == Wrap64(a + b)
Sub64(a, b) == Wrap64(a - b)

Min(a, b) == IF a < b THEN a ELSE b

----------------------------------------------------------------------------
(* Inputs: what the statistics store can hand to a handler                 *)

\* (total, finished-or-failed) counter pairs: a well-formed pair, a pair
\* with a negative total and the part above the total, and a pair at the
\* edge of int64.
CounterPairs == { <<3, 1>>, <<0 - 1, 2>>, <<MaxInt64, 0 - 1>> }

ApiPairs == { <<9, 4>> }

DailyStatistic(we, wef, ae, aef) ==
    [ WorkflowExecutions         |-> we,
      WorkflowExecutionsFinished |-> wef,
      AppExecutions              |-> ae,
      AppExecutionsFailed        |-> aef ]

\* Days a history is made of; consecutive days differ in every field.
DayPool == <<
    DailyStatistic(3, 1, 4, 1),
    DailyStatistic(1, 2, 2, 5),
    DailyStatistic(0 - 1, 3, 6, 0 - 2),
    DailyStatistic(MaxInt64, 0 - 1, MinInt64, 2),
    DailyStatistic(5, 4, 7, 3)
>>

HistoryOffsets == {0, 2}

\* A history of n days, oldest first, cycling through DayPool from `off`.
HistoryOf(n, off) == [ j \in 1..n |-> DayPool[((j - 1 + off) % Len(DayPool)) + 1] ]

Histories == { HistoryOf(n, off) : n \in 0..MaxHistory, off \in HistoryOffsets }

ExecutionInfo(api, dw, da, mw, ma, hist) ==
    [ TotalApiUsage                     |-> api[1],
      DailyApiUsage                     |-> api[2],
      DailyWorkflowExecutions           |-> dw[1],
      DailyWorkflowExecutionsFinished   |-> dw[2],
      DailyAppExecutions                |-> da[1],
      DailyAppExecutionsFailed          |-> da[2],
      MonthlyWorkflowExecutions         |-> mw[1],
      MonthlyWorkflowExecutionsFinished |-> mw[2],
      MonthlyAppExecutions              |-> ma[1],
      MonthlyAppExecutionsFailed        |-> ma[2],
      DailyStatistics                   |-> hist ]

Snapshots ==
    { ExecutionInfo(api, dw, da, mw, ma, hist) :
        api \in ApiPairs, dw \in CounterPairs, da \in CounterPairs,
        mw \in CounterPairs, ma \in CounterPairs, hist \in Histories }

UserIds == {"u1", "u2"}

Users == [ Id : UserIds, SupportAccess : BOOLEAN ]

\* shuffle.GetOrg: an error, or an organization with its member list
OrgResults == [ err : {TRUE}, Users : {{}} ] \cup [ err : {FALSE}, Users : SUBSET UserIds ]

\* GetAllWorkflowExecutions(ctx, id, 1) for one workflow: an error, no
\* execution, or one execution
ExecutionLookups == {"error", "none", "some"}

RECURSIVE SeqsUpTo(_, _)
SeqsUpTo(S, n) ==
    IF n = 0 THEN { <<>> }
    ELSE LET shorter == SeqsUpTo(S, n - 1)
         IN  shorter \cup { Append(s, x) : s \in shorter, x \in S }

\* GetAllWorkflowsByQuery: an error, or the workflows (each standing for
\* the outcome of its execution lookup)
WorkflowResults ==
    { [ err |-> TRUE, list |-> <<>> ] } \cup
    { [ err |-> FALSE, list |-> l ] : l \in SeqsUpTo(ExecutionLookups, MaxWorkflows) }

----------------------------------------------------------------------------
(* Responses                                                               *)

\* json.Marshal of a CslResponse: reason and data carry omitempty
CslResponse(success, reason, data) ==
    [ success |-> success, reason |-> reason, data |-> data ]

createCslErrorResponse(err) == CslResponse(FALSE, err, Nil)

CslExecutionStats(total, success, failure) ==
    [ total |-> total, success |-> success, failure |-> failure ]

----------------------------------------------------------------------------
(* Reading a Go slice: s[i] with 0 <= i < len(s), a run-time panic         *)
(* otherwise                                                               *)

InRange(n, i) == 0 <= i /\ i < n

At(s, i) == s[i + 1]

----------------------------------------------------------------------------
(* cslWorkflowExecutions: the daily series                                 *)

\* faulty variant: the loop stops one history entry early
SeriesCondShort(n, i) == i < n - 1 /\ i < MonthLength
\* loop condition of the series loop, n = len(orgStats.DailyStatistics)
SeriesLoopCond(n, i) == i < n /\ i < MonthLength

\* faulty variant: the history is walked from its start
SeriesIndexForward(n, i) == i
\* index of DailyStatistics read at iteration i
SeriesIndex(n, i) == n - i - 1

RECURSIVE DailySeriesLoop(_, _, _)
DailySeriesLoop(stats, i, acc) ==
    LET hist == stats.DailyStatistics
        n    == Len(hist)
        idx  == SeriesIndex(n, i)
    IN  IF SeriesLoopCond(n, i)
        THEN IF InRange(n, idx)
             THEN DailySeriesLoop(stats, i + 1,
                                  Append(acc, At(hist, idx).WorkflowExecutions))
             ELSE [ panic |-> TRUE, value |-> acc ]
        ELSE [ panic |-> FALSE, value |-> acc ]

\* the slice starts with the current day's value, then the loop runs
DailyWorkflowExecutions(stats) ==
    DailySeriesLoop(stats, 0, << stats.DailyWorkflowExecutions >>)

CslWorkflowExecutionsResponse(stats, series) ==
    [ workflow_executions          |-> stats.MonthlyWorkflowExecutions,
      workflow_executions_finished |-> stats.MonthlyWorkflowExecutionsFinished,
      workflow_executions_failed   |->
          Sub64(stats.MonthlyWorkflowExecutions, stats.MonthlyWorkflowExecutionsFinished),
      daily_workflow_executions    |-> series ]

----------------------------------------------------------------------------
(* cslWorkflowChart                                                        *)

\* faulty variant: the week loop sums WeekLength history entries
WorkflowWeekCondSeven(n, i) == i < WeekLength /\ i < n
WorkflowWeekCond(n, i) == i < WeekLength - 1 /\ i < n

RECURSIVE WorkflowWeekLoop(_, _, _, _)
WorkflowWeekLoop(stats, i, weekSuccess, weekFailure) ==
    LET hist == stats.DailyStatistics
        n    == Len(hist)
        idx  == n - i - 1
    IN  IF WorkflowWeekCond(n, i)
        THEN IF InRange(n, idx)
             THEN LET dayStats == At(hist, idx)
                  IN  WorkflowWeekLoop(stats, i + 1,
                          Add64(weekSuccess, dayStats.WorkflowExecutionsFinished),
                          Add64(weekFailure,
                                Sub64(dayStats.WorkflowExecutions,
                                      dayStats.WorkflowExecutionsFinished)))
             ELSE [ panic |-> TRUE, success |-> weekSuccess, failure |-> weekFailure ]
        ELSE [ panic |-> FALSE, success |-> weekSuccess, failure |-> weekFailure ]

WorkflowDay(stats) ==
    CslExecutionStats(
        stats.DailyWorkflowExecutions,
        stats.DailyWorkflowExecutionsFinished,
        Sub64(stats.DailyWorkflowExecutions, stats.DailyWorkflowExecutionsFinished))

WorkflowWeek(stats) ==
    LET w == WorkflowWeekLoop(stats, 0,
                 stats.DailyWorkflowExecutionsFinished,
                 Sub64(stats.DailyWorkflowExecutions, stats.DailyWorkflowExecutionsFinished))
    IN  [ panic |-> w.panic,
          value |-> CslExecutionStats(Add64(w.success, w.failure), w.success, w.failure) ]

\* faulty variant: the month is computed from the history
WorkflowMonthFromWeek(stats) == WorkflowWeek(stats).value
WorkflowMonth(stats) ==
    CslExecutionStats(
        stats.MonthlyWorkflowExecutions,
        stats.MonthlyWorkflowExecutionsFinished,
        Sub64(stats.MonthlyWorkflowExecutions, stats.MonthlyWorkflowExecutionsFinished))

CslChartResponse(day, week, month) == [ day |-> day, week |-> week, month |-> month ]

----------------------------------------------------------------------------
(* cslAppChart                                                             *)

AppWeekCond(n, i) == i < WeekLength - 1 /\ i < n

RECURSIVE AppWeekLoop(_, _, _, _)
AppWeekLoop(stats, i, weekSuccess, weekFailure) ==
    LET hist == stats.DailyStatistics
        n    == Len(hist)
        idx  == n - i - 1
    IN  IF AppWeekCond(n, i)
        THEN IF InRange(n, idx)
             THEN LET dayStats == At(hist, idx)
                  IN  AppWeekLoop(stats, i + 1,
                          Add64(weekSuccess,
                                Sub64(dayStats.AppExecutions, dayStats.AppExecutionsFailed)),
                          Add64(weekFailure, dayStats.AppExecutionsFailed))
             ELSE [ panic |-> TRUE, success |-> weekSuccess, failure |-> weekFailure ]
        ELSE [ panic |-> FALSE, success |-> weekSuccess, failure |-> weekFailure ]

\* faulty variant: the workflow derivation applied to the app counters
AppDayInverted(stats) ==
    CslExecutionStats(
        stats.DailyAppExecutions,
        stats.DailyAppExecutionsFailed,
        Sub64(stats.DailyAppExecutions, stats.DailyAppExecutionsFailed))
AppDay(stats) ==
    CslExecutionStats(
        stats.DailyAppExecutions,
        Sub64(stats.DailyAppExecutions, stats.DailyAppExecutionsFailed),
        stats.DailyAppExecutionsFailed)

AppWeek(stats) ==
    LET w == AppWeekLoop(stats, 0,
                 Sub64(stats.DailyAppExecutions, stats.DailyAppExecutionsFailed),
                 stats.DailyAppExecutionsFailed)
    IN  [ panic |-> w.panic,
          value |-> CslExecutionStats(Add64(w.success, w.failure), w.success, w.failure) ]

\* faulty variant: success is the total, not total - failed
AppMonthNoComplement(stats) ==
    CslExecutionStats(
        stats.MonthlyAppExecutions,
        stats.MonthlyAppExecutions,
        stats.MonthlyAppExecutionsFailed)
AppMonth(stats) ==
    CslExecutionStats(
        stats.MonthlyAppExecutions,
        Sub64(stats.MonthlyAppExecutions, stats.MonthlyAppExecutionsFailed),
        stats.MonthlyAppExecutionsFailed)

----------------------------------------------------------------------------
(* Shared helpers of the handlers                                          *)

NoError == ""

\* faulty variant: support access is tested before the lookup error
checkUserOrgAccessSupportFirst(o, u) ==
    IF u.SupportAccess THEN NoError
    ELSE IF o.err THEN "failed retrieving org"
    ELSE IF u.Id \in o.Users THEN NoError
    ELSE "user attempting to access an organization they're not a part of"
\* checkUserOrgAccess(ctx, user), o being what shuffle.GetOrg returned
checkUserOrgAccess(o, u) ==
    IF o.err THEN "failed retrieving org"
    ELSE IF u.Id \in o.Users THEN NoError
    ELSE IF u.SupportAccess THEN NoError
    ELSE "user attempting to access an organization they're not a part of"

\* json.Marshal of the response structs of this file: integers, strings,
\* booleans and slices of integers, for which encoding/json has no error
Marshal(res) == [ err |-> NoError, bytes |-> res ]

\* the calls marshalAndWriteResponse makes on the response writer
marshalAndWriteResponse(res) ==
    LET m == Marshal(res)
    IN  IF m.err # NoError
        THEN [ status |-> << 500 >>, body |-> << createCslErrorResponse(m.err) >> ]
        ELSE [ status |-> << 200 >>, body |-> << m.bytes >> ]

Step(name, ok) == [ step |-> name, ok |-> ok ]

\* resp.WriteHeader(code); resp.Write(createCslErrorResponse(err)); return
Fail(code, err) ==
    /\ status' = Append(status, code)
    /\ body' = Append(body, createCslErrorResponse(err))
    /\ pc' = "done"

\* marshalAndWriteResponse(resp, res, ...) as the handler's last statement
Respond(res) ==
    LET w == marshalAndWriteResponse(res)
    IN  /\ status' = status \o w.status
        /\ body' = body \o w.body
        /\ pc' = "done"

TestEndpoints == {"cslTestSuccess", "cslTestFailure"}
StatsEndpoints == {"cslApiUsage", "cslWorkflowExecutions", "cslWorkflowChart", "cslAppChart"}
ChartEndpoints == {"cslWorkflowChart", "cslAppChart"}
AuthEndpoints == {"cslWorkflows", "cslApps"} \cup StatsEndpoints
Endpoints == TestEndpoints \cup AuthEndpoints

----------------------------------------------------------------------------
(* The state machine                                                       *)

Init ==
    /\ pc = "idle"
    /\ endpoint = "none"
    /\ user = Nil
    /\ org = Nil
    /\ orgStats = Nil
    /\ workflows = Nil
    /\ status = << >>
    /\ body = << >>
    /\ trace = << >>

\* The HTTP server dispatches the next request to one of the handlers.
\* Every handler starts from fresh locals and a fresh response writer.
Serve ==
    /\ pc \in {"idle", "done", "panicked"}
    /\ \E e \in Endpoints : endpoint' = e
    /\ pc' = "entered"
    /\ user' = Nil
    /\ org' = Nil
    /\ orgStats' = Nil
    /\ workflows' = Nil
    /\ status' = << >>
    /\ body' = << >>
    /\ trace' = << >>

\* if shuffle.HandleCors(resp, request) { return }
HandleCors ==
    /\ pc = "entered"
    /\ \E preflight \in BOOLEAN :
          /\ trace' = Append(trace, Step("HandleCors", ~preflight))
          /\ pc' = IF preflight THEN "done" ELSE "corsPassed"
    /\ UNCHANGED <<endpoint, user, org, orgStats, workflows, status, body>>

\* user, err := shuffle.HandleApiAuthentication(resp, request)
HandleApiAuthentication ==
    /\ pc = "corsPassed"
    /\ endpoint \in AuthEndpoints
    /\ \/ /\ trace' = Append(trace, Step("HandleApiAuthentication", FALSE))
          /\ Fail(401, "authentication failed")
          /\ user' = user
       \/ \E u \in Users :
             /\ trace' = Append(trace, Step("HandleApiAuthentication", TRUE))
             /\ user' = u
             /\ pc' = "authenticated"
             /\ UNCHANGED <<status, body>>
    /\ UNCHANGED <<endpoint, org, orgStats, workflows>>

\* faulty variant: the return after the 401 is missing
CheckAccessNoReturn ==
    /\ pc = "authenticated"
    /\ \E o \in OrgResults :
          LET err == checkUserOrgAccess(o, user)
          IN  /\ org' = o
              /\ trace' = Append(trace, Step("checkUserOrgAccess", err = NoError))
              /\ IF err # NoError
                 THEN /\ status' = Append(status, 401)
                      /\ body' = Append(body, createCslErrorResponse(err))
                 ELSE UNCHANGED <<status, body>>
              /\ pc' = "authorized"
    /\ UNCHANGED <<endpoint, user, orgStats, workflows>>

\* err = checkUserOrgAccess(ctx, user)
CheckAccess ==
    /\ pc = "authenticated"
    /\ \E o \in OrgResults :
          LET err == checkUserOrgAccess(o, user)
          IN  /\ org' = o
              /\ trace' = Append(trace, Step("checkUserOrgAccess", err = NoError))
              /\ IF err # NoError
                 THEN Fail(401, err)
                 ELSE /\ pc' = "authorized"
                      /\ UNCHANGED <<status, body>>
    /\ UNCHANGED <<endpoint, user, orgStats, workflows>>

\* orgStats, err := shuffle.GetOrgStatistics(ctx, user.ActiveOrg.Id), and
\* the return of handleOrgStatsRequest to the handler that called it
GetOrgStatistics ==
    /\ pc = "authorized"
    /\ endpoint \in StatsEndpoints
    /\ \/ /\ trace' = Append(trace, Step("GetOrgStatistics", FALSE))
          /\ Fail(500, "failed getting org statistics")
          /\ UNCHANGED <<user, org, orgStats>>
       \/ \E s \in Snapshots :
             /\ trace' = Append(trace, Step("GetOrgStatistics", TRUE))
             /\ orgStats' = s
             /\ user' = Nil
             /\ org' = Nil
             /\ pc' = "fetched"
             /\ UNCHANGED <<status, body>>
    /\ UNCHANGED <<endpoint, workflows>>

----------------------------------------------------------------------------
(* The handlers, after their prologue                                      *)

\* cslTestSuccess, after HandleCors
cslTestSuccess ==
    /\ pc = "corsPassed"
    /\ endpoint = "cslTestSuccess"
    /\ trace' = Append(trace, Step("respond", TRUE))
    /\ Respond(CslResponse(TRUE, "", "this field can be any type"))
    /\ UNCHANGED <<endpoint, user, org, orgStats, workflows>>

\* cslTestFailure, after HandleCors
cslTestFailure ==
    /\ pc = "corsPassed"
    /\ endpoint = "cslTestFailure"
    /\ trace' = Append(trace, Step("respond", TRUE))
    /\ Respond(CslResponse(FALSE, "failed because something happened", Nil))
    /\ UNCHANGED <<endpoint, user, org, orgStats, workflows>>

\* faulty variant: a failed lookup is skipped instead of ending the request
RECURSIVE UnexecutedLoopNoReturn(_, _, _)
UnexecutedLoopNoReturn(list, k, unexecutedWorkflows) ==
    IF k >= Len(list)
    THEN [ err |-> NoError, unexecuted |-> unexecutedWorkflows ]
    ELSE UnexecutedLoopNoReturn(list, k + 1,
             IF At(list, k) = "none" THEN unexecutedWorkflows + 1
                                     ELSE unexecutedWorkflows)

\* the loop of cslWorkflows over the workflows, from index k on
RECURSIVE UnexecutedLoop(_, _, _)
UnexecutedLoop(list, k, unexecutedWorkflows) ==
    IF k >= Len(list)
    THEN [ err |-> NoError, unexecuted |-> unexecutedWorkflows ]
    ELSE IF At(list, k) = "error"
    THEN [ err |-> "failed getting workflow executions", unexecuted |-> unexecutedWorkflows ]
    ELSE UnexecutedLoop(list, k + 1,
             IF At(list, k) = "none" THEN unexecutedWorkflows + 1
                                     ELSE unexecutedWorkflows)

\* cslWorkflows, after checkUserOrgAccess
cslWorkflows ==
    /\ pc = "authorized"
    /\ endpoint = "cslWorkflows"
    /\ \E w \in WorkflowResults :
          /\ workflows' = w
          /\ IF w.err
             THEN /\ trace' = Append(trace, Step("GetAllWorkflowsByQuery", FALSE))
                  /\ Fail(500, "failed getting workflows")
             ELSE LET r == UnexecutedLoop(w.list, 0, 0)
                  IN  IF r.err # NoError
                      THEN /\ trace' = Append(trace, Step("GetAllWorkflowExecutions", FALSE))
                           /\ Fail(500, r.err)
                      ELSE /\ trace' = Append(trace, Step("respond", TRUE))
                           /\ Respond(CslResponse(TRUE, "",
                                  [ workflows            |-> Len(w.list),
                                    unexecuted_workflows |-> r.unexecuted ]))
    /\ UNCHANGED <<endpoint, user, org, orgStats>>

\* cslApps, after checkUserOrgAccess
cslApps ==
    /\ pc = "authorized"
    /\ endpoint = "cslApps"
    /\ \/ /\ trace' = Append(trace, Step("GetAllWorkflowApps", FALSE))
          /\ Fail(500, "failed getting all apps")
       \/ \E n \in 0..MaxApps :
             /\ trace' = Append(trace, Step("respond", TRUE))
             /\ Respond(CslResponse(TRUE, "", [ apps |-> n ]))
    /\ UNCHANGED <<endpoint, user, org, orgStats, workflows>>

\* cslApiUsage, after handleOrgStatsRequest returned orgStats
cslApiUsage ==
    /\ pc = "fetched"
    /\ endpoint = "cslApiUsage"
    /\ trace' = Append(trace, Step("respond", TRUE))
    /\ Respond(CslResponse(TRUE, "",
           [ total_api_usage |-> orgStats.TotalApiUsage,
             daily_api_usage |-> orgStats.DailyApiUsage ]))
    /\ UNCHANGED <<endpoint, user, org, orgStats, workflows>>

\* a run-time panic inside the handler: net/http recovers it and the
\* handler writes nothing
Panic ==
    /\ trace' = Append(trace, Step("respond", FALSE))
    /\ pc' = "panicked"
    /\ UNCHANGED <<status, body>>

\* cslWorkflowExecutions, after handleOrgStatsRequest returned orgStats
cslWorkflowExecutions ==
    /\ pc = "fetched"
    /\ endpoint = "cslWorkflowExecutions"
    /\ LET series == DailyWorkflowExecutions(orgStats)
       IN  IF series.panic
           THEN Panic
           ELSE /\ trace' = Append(trace, Step("respond", TRUE))
                /\ Respond(CslResponse(TRUE, "",
                       CslWorkflowExecutionsResponse(orgStats, series.value)))
    /\ UNCHANGED <<endpoint, user, org, orgStats, workflows>>

\* cslWorkflowChart, after handleOrgStatsRequest returned orgStats
cslWorkflowChart ==
    /\ pc = "fetched"
    /\ endpoint = "cslWorkflowChart"
    /\ LET week == WorkflowWeek(orgStats)
       IN  IF week.panic
           THEN Panic
           ELSE /\ trace' = Append(trace, Step("respond", TRUE))
                /\ Respond(CslResponse(TRUE, "",
                       CslChartResponse(WorkflowDay(orgStats), week.value,
                                        WorkflowMonth(orgStats))))
    /\ UNCHANGED <<endpoint, user, org, orgStats, workflows>>

\* cslAppChart, after handleOrgStatsRequest returned orgStats
cslAppChart ==
    /\ pc = "fetched"
    /\ endpoint = "cslAppChart"
    /\ LET week == AppWeek(orgStats)
       IN  IF week.panic
           THEN Panic
           ELSE /\ trace' = Append(trace, Step("respond", TRUE))
                /\ Respond(CslResponse(TRUE, "",
                       CslChartResponse(AppDay(orgStats), week.value,
                                        AppMonth(orgStats))))
    /\ UNCHANGED <<endpoint, user, org, orgStats, workflows>>

Next ==
    \/ Serve
    \/ HandleCors
    \/ HandleApiAuthentication
    \/ CheckAccess
    \/ GetOrgStatistics
    \/ cslTestSuccess
    \/ cslTestFailure
    \/ cslWorkflows
    \/ cslApps
    \/ cslApiUsage
    \/ cslWorkflowExecutions
    \/ cslWorkflowChart
    \/ cslAppChart

Spec == Init /\ [][Next]_vars

----------------------------------------------------------------------------
(* Properties                                                              *)

\* the handler `e` answered the current request with 200 and one body
Answered(e) ==
    /\ pc = "done"
    /\ endpoint = e
    /\ status = << 200 >>
    /\ Len(body) = 1

Data == body[1].data

History == orgStats.DailyStatistics

RECURSIVE SumOver(_, _)
SumOver(S, g) ==
    IF S = {} THEN 0
    ELSE LET x == CHOOSE y \in S : TRUE
         IN  g[x] + SumOver(S \ {x}, g)

\* positions (1-based, oldest first) of the m most recent days of h
MostRecent(h, m) == { j \in 1..Len(h) : j > Len(h) - Min(m, Len(h)) }

(* C1: the daily series of the monthly-executions endpoint has length      *)
(* exactly 1 + min(len(history), MonthLength - 1): never more than 30.     *)
C1_SeriesLength ==
    Answered("cslWorkflowExecutions") =>
        Len(Data.daily_workflow_executions) = 1 + Min(Len(History), MonthLength - 1)

(* C3: element 0 of the daily series is dailyWorkflowExecutions and        *)
(* element i > 0 is history[len(history) - i].workflowExecutions, the      *)
(* index always inside history.                                            *)
C3_BackwardOrdering ==
    /\ endpoint = "cslWorkflowExecutions" => pc # "panicked"
    /\ Answered("cslWorkflowExecutions") =>
          LET series == Data.daily_workflow_executions
              n      == Len(History)
          IN  /\ Len(series) >= 1
              /\ At(series, 0) = orgStats.DailyWorkflowExecutions
              /\ \A i \in 1..(Len(series) - 1) :
                    /\ InRange(n, n - i)
                    /\ At(series, i) = At(History, n - i).WorkflowExecutions

C3_Witness ==
    /\ Answered("cslWorkflowExecutions")
    /\ Len(History) >= 3
    /\ At(Data.daily_workflow_executions, 1) = At(History, Len(History) - 1).WorkflowExecutions
    /\ At(Data.daily_workflow_executions, 1) # At(History, 0).WorkflowExecutions
    /\ At(Data.daily_workflow_executions, 3) = At(History, Len(History) - 3).WorkflowExecutions

(* C4: for a history of k < MonthLength - 1 days the request is answered   *)
(* with a series of exactly k + 1 elements, today's count followed by      *)
(* every history entry, nothing padded.                                    *)
C4_ShortHistory ==
    ( /\ endpoint = "cslWorkflowExecutions"
      /\ pc \in {"done", "panicked"}
      /\ orgStats # Nil
      /\ Len(History) < MonthLength - 1 ) =>
        /\ Answered("cslWorkflowExecutions")
        /\ body[1].success
        /\ LET series == Data.daily_workflow_executions
               k      == Len(History)
           IN  /\ Len(series) = k + 1
               /\ series[1] = orgStats.DailyWorkflowExecutions
               /\ \A j \in 1..k : series[k + 2 - j] = History[j].WorkflowExecutions

C4_Witness ==
    /\ Answered("cslWorkflowExecutions")
    /\ Len(History) = MonthLength - 2
    /\ Len(Data.daily_workflow_executions) = MonthLength - 1

ChartAnswered == \E e \in ChartEndpoints : Answered(e)

Decomposed(w) == w.total = Add64(w.success, w.failure)

(* C2: in every chart response, for day, week and month,                   *)
(* total == success + failure (int64 arithmetic), whatever the snapshot.   *)
C2_TotalDecomposition ==
    ChartAnswered =>
        /\ Decomposed(Data.day)
        /\ Decomposed(Data.week)
        /\ Decomposed(Data.month)

C2_Witness ==
    /\ Answered("cslWorkflowChart")
    /\ orgStats.DailyWorkflowExecutions < 0
    /\ orgStats.DailyWorkflowExecutionsFinished > orgStats.DailyWorkflowExecutions
    /\ Data.day.failure < 0
    /\ orgStats.MonthlyAppExecutionsFailed > orgStats.MonthlyAppExecutions
    /\ Len(History) > 0

\* succeeded and failed count of one past day, per chart
Succeeded(e, d) ==
    IF e = "cslWorkflowChart" THEN d.WorkflowExecutionsFinished
    ELSE d.AppExecutions - d.AppExecutionsFailed

Failed(e, d) ==
    IF e = "cslWorkflowChart" THEN d.WorkflowExecutions - d.WorkflowExecutionsFinished
    ELSE d.AppExecutionsFailed

(* C5: week.success = day.success + the succeeded counts of the            *)
(* min(6, len(history)) most recent days, week.failure likewise with the   *)
(* failed counts; older days never contribute and nothing is scaled.       *)
C5_WeekBound ==
    \A e \in ChartEndpoints :
        Answered(e) =>
            LET recent == MostRecent(History, 6)
            IN  /\ Data.week.success =
                      Wrap64(Data.day.success +
                             SumOver(recent, [ j \in recent |-> Succeeded(e, History[j]) ]))
                /\ Data.week.failure =
                      Wrap64(Data.day.failure +
                             SumOver(recent, [ j \in recent |-> Failed(e, History[j]) ]))

C5_Witness ==
    /\ Answered("cslWorkflowChart")
    /\ Len(History) >= 8
    /\ History[Len(History) - 6].WorkflowExecutionsFinished # 0
    /\ Data.week.success # Data.day.success

\* snapshots that agree with `stats` on every monthly counter and carry
\* any history and any current-day counters
SameMonthlyCounters(stats) ==
    { [ stats EXCEPT !.DailyWorkflowExecutions = today[1],
                     !.DailyWorkflowExecutionsFinished = today[2],
                     !.DailyAppExecutions = today[1],
                     !.DailyAppExecutionsFailed = today[2],
                     !.DailyStatistics = hist ] :
        today \in CounterPairs, hist \in Histories }

MonthOf(e, stats) ==
    IF e = "cslWorkflowChart" THEN WorkflowMonth(stats) ELSE AppMonth(stats)

(* C6: the month rollup is the monthly total, the monthly finished count   *)
(* (workflow) or total - failed (app) and the complement, and it is the    *)
(* same for every snapshot with the same monthly counters, whatever its    *)
(* history and current-day counters.                                       *)
C6_MonthIndependence ==
    /\ Answered("cslWorkflowChart") =>
          /\ Data.month.total = orgStats.MonthlyWorkflowExecutions
          /\ Data.month.success = orgStats.MonthlyWorkflowExecutionsFinished
          /\ Data.month.failure =
                Sub64(orgStats.MonthlyWorkflowExecutions,
                      orgStats.MonthlyWorkflowExecutionsFinished)
    /\ Answered("cslAppChart") =>
          /\ Data.month.total = orgStats.MonthlyAppExecutions
          /\ Data.month.success =
                Sub64(orgStats.MonthlyAppExecutions, orgStats.MonthlyAppExecutionsFailed)
          /\ Data.month.failure = orgStats.MonthlyAppExecutionsFailed
    /\ \A e \in ChartEndpoints :
          Answered(e) =>
              \A other \in SameMonthlyCounters(orgStats) : MonthOf(e, other) = Data.month

C6_Witness ==
    /\ Answered("cslWorkflowChart")
    /\ Len(History) > WeekLength
    /\ Data.month # Data.week
    /\ Data.month # Data.day
    /\ \E other \in SameMonthlyCounters(orgStats) :
          /\ other.DailyStatistics # History
          /\ other.DailyWorkflowExecutions # orgStats.DailyWorkflowExecutions

(* C7: the workflow chart takes success from the finished counter and      *)
(* failure as total - finished; the app chart takes failure from the       *)
(* failed counter and success as total - failed; the same rule is applied  *)
(* to the day figures and to every history entry summed into the week.     *)
C7_AsymmetricDerivation ==
    /\ Answered("cslWorkflowChart") =>
          LET recent == MostRecent(History, WeekLength - 1)
          IN  /\ Data.day.success = orgStats.DailyWorkflowExecutionsFinished
              /\ Data.day.failure =
                    Wrap64(orgStats.DailyWorkflowExecutions -
                           orgStats.DailyWorkflowExecutionsFinished)
              /\ Data.week.success =
                    Wrap64(orgStats.DailyWorkflowExecutionsFinished +
                           SumOver(recent,
                               [ j \in recent |-> History[j].WorkflowExecutionsFinished ]))
              /\ Data.week.failure =
                    Wrap64(orgStats.DailyWorkflowExecutions -
                           orgStats.DailyWorkflowExecutionsFinished +
                           SumOver(recent,
                               [ j \in recent |-> History[j].WorkflowExecutions -
                                                  History[j].WorkflowExecutionsFinished ]))
    /\ Answered("cslAppChart") =>
          LET recent == MostRecent(History, WeekLength - 1)
          IN  /\ Data.day.failure = orgStats.DailyAppExecutionsFailed
              /\ Data.day.success =
                    Wrap64(orgStats.DailyAppExecutions - orgStats.DailyAppExecutionsFailed)
              /\ Data.week.failure =
                    Wrap64(orgStats.DailyAppExecutionsFailed +
                           SumOver(recent,
                               [ j \in recent |-> History[j].AppExecutionsFailed ]))
              /\ Data.week.success =
                    Wrap64(orgStats.DailyAppExecutions - orgStats.DailyAppExecutionsFailed +
                           SumOver(recent,
                               [ j \in recent |-> History[j].AppExecutions -
                                                  History[j].AppExecutionsFailed ]))

C7_Witness ==
    /\ Answered("cslAppChart")
    /\ Len(History) >= 2
    /\ Data.day.failure = orgStats.DailyAppExecutionsFailed
    /\ Data.day.success # orgStats.DailyAppExecutionsFailed
    /\ orgStats.DailyAppExecutionsFailed # orgStats.DailyWorkflowExecutionsFinished
    /\ orgStats.DailyAppExecutions # orgStats.DailyWorkflowExecutions
    /\ Data.week.failure # Data.week.success

\* the order of the steps of a statistics request
StatsOrder ==
    << "HandleCors", "HandleApiAuthentication", "checkUserOrgAccess",
       "GetOrgStatistics", "respond" >>

Last(t) == t[Len(t)]

ErrorBody(b) == b.success = FALSE /\ b.reason # "" /\ b.data = Nil

(* C8: a statistics request runs CORS check, authentication,               *)
(* organization-access check, statistics fetch, aggregation in this        *)
(* order; the statistics are fetched and a result is written only after    *)
(* authentication and the access check both succeeded; a failure of        *)
(* either ends the request with 401 and an error body, a failed fetch      *)
(* with 500.                                                               *)
C8_StepOrder ==
    endpoint \in StatsEndpoints =>
        /\ Len(trace) <= Len(StatsOrder)
        /\ \A k \in 1..Len(trace) : trace[k].step = StatsOrder[k]
        /\ \A k \in 1..(Len(trace) - 1) : trace[k].ok
        /\ orgStats # Nil =>
              /\ Len(trace) >= 4
              /\ trace[2].ok /\ trace[3].ok /\ trace[4].ok
        /\ (\E k \in 1..Len(status) : status[k] = 200) =>
              /\ Len(trace) = 5
              /\ orgStats # Nil
        /\ ( /\ Len(trace) \in {2, 3}
             /\ ~Last(trace).ok ) =>
              /\ pc = "done"
              /\ status = << 401 >>
              /\ Len(body) = 1
              /\ ErrorBody(body[1])
              /\ orgStats = Nil
        /\ ( /\ Len(trace) = 4
             /\ ~Last(trace).ok ) =>
              /\ pc = "done"
              /\ status = << 500 >>
              /\ Len(body) = 1
              /\ ErrorBody(body[1])
              /\ orgStats = Nil

C8_Witness ==
    /\ endpoint = "cslWorkflowChart"
    /\ pc = "done"
    /\ Len(trace) = 3
    /\ trace[2].ok
    /\ ~trace[3].ok
    /\ status = << 401 >>
    /\ orgStats = Nil

\* the access check of the current request has run on `user` and `org`
AccessChecked ==
    /\ Len(trace) >= 3
    /\ trace[3].step = "checkUserOrgAccess"
    /\ user # Nil
    /\ org # Nil

(* C9: checkUserOrgAccess grants access exactly when the organization      *)
(* lookup succeeds and the user is a member or has support access; a       *)
(* failed lookup is returned as the error even for a support user, and a   *)
(* non-member without support access is rejected.                          *)
C9_AccessCheck ==
    AccessChecked =>
        /\ trace[3].ok <=> ( /\ ~org.err
                             /\ \/ user.Id \in org.Users
                                \/ user.SupportAccess )
        /\ org.err =>
              /\ ~trace[3].ok
              /\ status = << 401 >>
              /\ body[1].reason = "failed retrieving org"
        /\ ( /\ ~org.err
             /\ user.Id \notin org.Users
             /\ ~user.SupportAccess ) =>
              /\ ~trace[3].ok
              /\ status = << 401 >>
              /\ body[1].reason # "failed retrieving org"

C9_Witness ==
    /\ AccessChecked
    /\ org.err
    /\ user.SupportAccess
    /\ ~trace[3].ok
    /\ pc = "done"

\* the handler ran past the CORS check and has returned
Returned == pc = "done" /\ Len(trace) >= 1 /\ trace[1].ok

\* 401 or 500 with an error body on a failure path, 200 with a success
\* body otherwise
OneOutcome ==
    /\ Len(status) = 1
    /\ Len(body) = 1
    /\ IF Last(trace).ok
       THEN status[1] = 200 /\ body[1].success = TRUE
       ELSE status[1] \in {401, 500} /\ ErrorBody(body[1])

\* a failed execution lookup in cslWorkflows ends the request with 500
LookupFailureAborts ==
    ( /\ endpoint = "cslWorkflows"
      /\ workflows # Nil
      /\ \E k \in 1..Len(workflows.list) : workflows.list[k] = "error" ) =>
        /\ status = << 500 >>
        /\ Len(body) = 1
        /\ ErrorBody(body[1])

(* C10 as stated: on every path of every handler past the CORS check the   *)
(* handler writes exactly one status and one body, 401 or 500 with a       *)
(* success=false body on a failure path and 200 with a success=true body   *)
(* otherwise; a failed execution lookup aborts cslWorkflows with 500.      *)
C10_AsStated ==
    /\ pc # "panicked"
    /\ Returned => OneOutcome /\ LookupFailureAborts

(* C10 amended: the same for every handler but the test endpoint           *)
(* cslTestFailure, which writes one status, 200, and one body, the         *)
(* example failure body with success=false.                                *)
C10_OneStatusOneBody ==
    /\ pc # "panicked"
    /\ Returned =>
          /\ Len(status) = 1
          /\ Len(body) = 1
          /\ IF endpoint = "cslTestFailure"
             THEN status[1] = 200 /\ body[1].success = FALSE
             ELSE OneOutcome /\ LookupFailureAborts

C10_Witness ==
    /\ Returned
    /\ endpoint = "cslWorkflows"
    /\ workflows # Nil
    /\ Len(workflows.list) = 2
    /\ workflows.list[1] = "none"
    /\ workflows.list[2] = "error"
    /\ status = << 500 >>
    /\ ErrorBody(body[1])

====
